---- MODULE Spec2Model ----
(***************************************************************************)
(* Model of cqparts/fasteners/utils/evaluator.py: the Effect value class   *)
(* and the Evaluator (max_effect_length, perform_evaluation, eval, clear). *)
(*                                                                         *)
(* Geometry is exact integer / rational arithmetic.  Vectors are integer   *)
(* triples; a point on the probe is a triple over a common denominator.    *)
(* The inputs are drawn from sets on which every Length the code takes is  *)
(* an integer (the corners of a 4 x 3 rectangle, half extents of integer   *)
(* norm, axis aligned directions), so sqrt is computed, never rounded.     *)
(* A candidate solid is the axis aligned box that fills its bounding box.  *)
(***************************************************************************)
EXTENDS Integers, Sequences, FiniteSets

(* ---------------------------- bounds ----------------------------------- *)
\* longest candidate list
MaxParts == 2
\* eval reads per buffering window (since construction or the last clear())
MaxReads == 2

(* ------------------------ cadquery.Vector ------------------------------ *)
Origin == <<0, 0, 0>>

sub(a, b) == <<a[1] - b[1], a[2] - b[2], a[3] - b[3]>>

add(a, b) == <<a[1] + b[1], a[2] + b[2], a[3] + b[3]>>

dot(a, b) == a[1] * b[1] + a[2] * b[2] + a[3] * b[3]

multiply(a, k) == <<a[1] * k, a[2] * k, a[3] * k>>

\* exact square root; the inputs keep every radicand a perfect square
sqrt(n) == CHOOSE r \in 0..n : r * r = n

Length(a) == sqrt(dot(a, a))

\* v / |v|, exact on the axis aligned directions the model draws
normalized(a) == <<a[1] \div Length(a), a[2] \div Length(a), a[3] \div Length(a)>>

(* ----------------- rationals <<numerator, denominator>> ---------------- *)
RLt(p, q) == p[1] * q[2] < q[1] * p[2]

REq(p, q) == p[1] * q[2] = q[1] * p[2]

RMax(p, q) == IF RLt(p, q) THEN q ELSE p

RMin(p, q) == IF RLt(q, p) THEN q ELSE p

(* ------------------------- candidate parts ----------------------------- *)
\* positions: corners of a 4 x 3 rectangle, all pairwise distances whole
Starts == {<<0, 0, 0>>, <<4, 0, 0>>}

Centres == {<<4, 0, 0>>, <<4, 3, 0>>}

\* half extents of the solids' boxes, of norm 3 and 6
SmallBox == <<1, 2, 2>>

LargeBox == <<2, 4, 4>>

HalfExtents == {SmallBox, LargeBox}

Dirs == {<<2, 0, 0>>, <<0, -1, 0>>}

\* a part: has a resolvable solid or not; `raises` marks geometry on which the
\* kernel's intersection fails
Unresolved == [solid |-> FALSE, c |-> Origin, h |-> Origin, raises |-> FALSE]

\* a solid whose geometry is malformed
Malformed == [solid |-> TRUE, c |-> <<4, 0, 0>>, h |-> SmallBox, raises |-> TRUE]

Candidates ==
    {Unresolved, Malformed} \cup
    [solid : {TRUE}, c : Centres, h : HalfExtents, raises : {FALSE}]

RECURSIVE SeqsUpTo(_, _)
SeqsUpTo(S, n) ==
    IF n = 0 THEN {<<>>}
    ELSE LET shorter == SeqsUpTo(S, n - 1)
         IN  shorter \cup {Append(s, x) : s \in {t \in shorter : Len(t) = n - 1}, x \in S}

\* mutant: every part is taken to have a solid
findSolid_always(part) == TRUE

\* part.object.findSolid()
findSolid(part) == part.solid

\* Solid.BoundingBox(): min/max corner, center, DiagonalLength
BoundingBox(part) ==
    LET lo == sub(part.c, part.h)
        hi == add(part.c, part.h)
        ext == sub(hi, lo)
    IN  [lo |-> lo, hi |-> hi,
         center |-> <<(lo[1] + hi[1]) \div 2, (lo[2] + hi[2]) \div 2, (lo[3] + hi[3]) \div 2>>,
         DiagonalLength |-> Length(ext)]

(* --------------------- Evaluator.max_effect_length --------------------- *)
\* mutant: the whole diagonal is added instead of half of it
RECURSIVE max_length_iter_full_diagonal(_, _)
max_length_iter_full_diagonal(ps, st) ==
    IF ps = <<>> THEN <<>>
    ELSE LET part == Head(ps)
             bb == BoundingBox(part)
         IN  (IF findSolid(part)
              THEN <<Length(sub(bb.center, st)) + bb.DiagonalLength>>
              ELSE <<>>)
             \o max_length_iter_full_diagonal(Tail(ps), st)

\* the generator max_length_iter: one value per part with a resolvable solid
RECURSIVE max_length_iter(_, _)
max_length_iter(ps, st) ==
    IF ps = <<>> THEN <<>>
    ELSE LET part == Head(ps)
             bb == BoundingBox(part)
         IN  (IF findSolid(part)
              THEN <<Length(sub(bb.center, st)) + (bb.DiagonalLength \div 2)>>
              ELSE <<>>)
             \o max_length_iter(Tail(ps), st)

\* the body of the property: max() of the generator, 0 on ValueError (nothing yielded)
max_effect_length(ps, st) ==
    LET ys == max_length_iter(ps, st)
    IN  IF ys = <<>> THEN 0
        ELSE CHOOSE m \in {ys[i] : i \in 1..Len(ys)} : \A i \in 1..Len(ys) : ys[i] <= m

\* @property_buffered: the body runs when the instance holds no value yet
Unset == [set |-> FALSE, value |-> 0]

property_buffered(buffer, computed) == IF buffer.set THEN buffer.value ELSE computed

(* --------------------------- kernel geometry --------------------------- *)
\* cadquery.Edge.makeLine(v1, v2): the edge between the POINTS v1 and v2;
\* the kernel rejects a line whose two points coincide
makeLine(v1, v2) == [built |-> v1 # v2, a |-> v1, b |-> v2]

NoProbe == [built |-> FALSE, a |-> Origin, b |-> Origin]

\* parameter range <<t0, t1>> (rationals) over which a + t * d lies in [lo, hi]
Slab(a, d, lo, hi) ==
    IF d > 0 THEN <<(<<lo - a, d>>), (<<hi - a, d>>)>>
    ELSE IF d < 0 THEN <<(<<a - hi, -d>>), (<<a - lo, -d>>)>>
    ELSE IF lo <= a /\ a <= hi THEN <<(<<0, 1>>), (<<1, 1>>)>>
    ELSE <<(<<1, 1>>), (<<0, 1>>)>>

\* the point a + t * (b - a) of the probe, over the denominator of t
PointAt(wp, t) ==
    [num |-> add(multiply(wp.a, t[2]), multiply(sub(wp.b, wp.a), t[1])), den |-> t[2]]

\* intersect(solid, wp): the part of the probe inside the solid, as a chain of
\* edges ordered along the probe; no edge when they do not overlap in a segment,
\* nor when the part has no solid
intersect(part, wp) ==
    LET bb == BoundingBox(part)
        d == sub(wp.b, wp.a)
        sx == Slab(wp.a[1], d[1], bb.lo[1], bb.hi[1])
        sy == Slab(wp.a[2], d[2], bb.lo[2], bb.hi[2])
        sz == Slab(wp.a[3], d[3], bb.lo[3], bb.hi[3])
        tIn == RMax(<<0, 1>>, RMax(sx[1], RMax(sy[1], sz[1])))
        tOut == RMin(<<1, 1>>, RMin(sx[2], RMin(sy[2], sz[2])))
    IN  IF findSolid(part) /\ RLt(tIn, tOut)
        THEN [edges |-> <<[v0 |-> PointAt(wp, tIn), v1 |-> PointAt(wp, tOut)]>>]
        ELSE [edges |-> <<>>]

(* -------------------------------- Effect ------------------------------- *)
\* Effect.__init__; `part` is the part's position in parts, `serial` tells the
\* objects of one evaluation run from those of another
Effect(origin, direction, part, result, serial) ==
    [origin |-> origin, direction |-> normalized(direction), part |-> part,
     result |-> result, serial |-> serial]

start_point(effect) == effect.result.edges[1].v0

end_point(effect) == effect.result.edges[Len(effect.result.edges)].v1

\* start_point.sub(origin).dot(direction), a rational
origin_displacement(effect) ==
    LET sp == start_point(effect)
    IN  <<dot(sub(sp.num, multiply(effect.origin, sp.den)), effect.direction), sp.den>>

\* Effect.__bool__
bool(effect) == effect.result.edges # <<>>

\* mutant: __lt__ compares with <=
lt_or_equal(self, other) == ~RLt(origin_displacement(other), origin_displacement(self))

\* Effect.__lt__
lt(self, other) == RLt(origin_displacement(self), origin_displacement(other))

\* sorted(): stable, comparing with __lt__ only
RECURSIVE insort(_, _)
insort(e, s) ==
    IF s = <<>> THEN <<e>>
    ELSE IF lt(e, Head(s)) THEN <<e>> \o s
    ELSE <<Head(s)>> \o insort(e, Tail(s))

RECURSIVE sorted(_)
sorted(s) == IF s = <<>> THEN <<>> ELSE insort(s[Len(s)], sorted(SubSeq(s, 1, Len(s) - 1)))

(* ------------------------------ Evaluator ------------------------------ *)
VARIABLES
    parts,        \* self.parts: the caller's list of parts (held by reference)
    start,        \* self.start
    dir,          \* self.dir
    evaluation,   \* self._evaluation: None or the buffered list of Effects
    mel,          \* the instance's buffered max_effect_length, if any
    reads,        \* eval reads since construction or the last clear()
    cleared,      \* clear() has discarded a buffered evaluation of this Evaluator
    last          \* what the last operation did and handed to its caller

vars == <<parts, start, dir, evaluation, mel, reads, cleared, last>>

None == [none |-> TRUE, val |-> <<>>]

NoError == [kind |-> "none", part |-> 0]

\* the kernel's error on the geometry of parts[i]
KernelError(i) == [kind |-> "kernel", part |-> i]

\* makeLine's error on coincident points
LineError == [kind |-> "line", part |-> 0]

\* mutant: the loop stops one part short
RECURSIVE effect_loop_off_by_one(_, _, _)
effect_loop_off_by_one(ctx, i, acc) ==
    IF i >= Len(ctx.parts)
    THEN [raised |-> FALSE, error |-> NoError, list |-> acc, icalls |-> i - 1]
    ELSE IF ctx.parts[i].raises
    THEN [raised |-> TRUE, error |-> KernelError(i), list |-> acc, icalls |-> i]
    ELSE LET effect == Effect(ctx.start, ctx.dir, i, intersect(ctx.parts[i], ctx.wp),
                              ctx.serial)
         IN  effect_loop_off_by_one(ctx, i + 1,
                                    IF bool(effect) THEN Append(acc, effect) ELSE acc)

\* the for loop of perform_evaluation from parts[i] on, effect_list = acc
RECURSIVE effect_loop(_, _, _)
effect_loop(ctx, i, acc) ==
    IF i > Len(ctx.parts)
    THEN [raised |-> FALSE, error |-> NoError, list |-> acc, icalls |-> i - 1]
    ELSE IF ctx.parts[i].raises
    THEN [raised |-> TRUE, error |-> KernelError(i), list |-> acc, icalls |-> i]
    ELSE LET effect == Effect(ctx.start, ctx.dir, i, intersect(ctx.parts[i], ctx.wp),
                              ctx.serial)
         IN  effect_loop(ctx, i + 1, IF bool(effect) THEN Append(acc, effect) ELSE acc)

\* the probe edge of perform_evaluation
probe_edge(st, dr, L) == makeLine(st, multiply(normalized(dr), L + 1))

\* perform_evaluation with max_effect_length = L: raised or not, the list
\* returned (effect_list so far when raised), the probe, the intersect calls
perform_evaluation(ps, st, dr, L, serial) ==
    IF L = 0
    THEN [raised |-> FALSE, error |-> NoError, list |-> <<>>, icalls |-> 0, probe |-> NoProbe]
    ELSE LET wp == probe_edge(st, dr, L)
             loop == effect_loop([parts |-> ps, start |-> st, dir |-> dr, wp |-> wp,
                                  serial |-> serial], 1, <<>>)
         IN  IF ~wp.built
             THEN [raised |-> TRUE, error |-> LineError, list |-> <<>>, icalls |-> 0,
                   probe |-> NoProbe]
             ELSE [raised |-> loop.raised, error |-> loop.error,
                   list |-> IF loop.raised THEN loop.list ELSE sorted(loop.list),
                   icalls |-> loop.icalls, probe |-> wp]

\* mutant: `if not self._evaluation`, which an empty list satisfies too
needs_evaluation_falsy(ev) == ev.none \/ ev.val = <<>>

\* `if self._evaluation is None`
needs_evaluation(ev) == ev.none

\* mutant: the effects collected so far are stored when the evaluation raises
assign_evaluation_partial(ev, r) == [none |-> FALSE, val |-> r.list]

\* `self._evaluation = self.perform_evaluation()`: assigned when the call returns
assign_evaluation(ev, r) == IF r.raised THEN ev ELSE [none |-> FALSE, val |-> r.list]

Idle(op) ==
    [op |-> op, ran |-> FALSE, sized |-> FALSE, raised |-> FALSE, error |-> NoError,
     value |-> <<>>, probe |-> NoProbe, icalls |-> 0, afterClear |-> FALSE]

\* Evaluator.__init__ over the list ps
Constructed(ps, st, dr) ==
    /\ parts' = ps
    /\ start' = st
    /\ dir' = dr
    /\ evaluation' = None
    /\ mel' = Unset
    /\ reads' = 0
    /\ cleared' = FALSE
    /\ last' = Idle("construct")

Init ==
    /\ parts \in SeqsUpTo(Candidates, MaxParts)
    /\ start \in Starts
    /\ dir \in Dirs
    /\ evaluation = None
    /\ mel = Unset
    /\ reads = 0
    /\ cleared = FALSE
    /\ last = Idle("construct")

\* a new Evaluator over the same list of parts, with the same start and dir
construct ==
    /\ last.op # "construct"
    /\ Constructed(parts, start, dir)

\* reading the property max_effect_length
read_max_effect_length ==
    /\ last.op # "length"
    /\ mel' = [set |-> TRUE, value |-> property_buffered(mel, max_effect_length(parts, start))]
    /\ last' = [Idle("length") EXCEPT !.sized = ~mel.set]
    /\ UNCHANGED <<parts, start, dir, evaluation, reads, cleared>>

\* reading the property eval
eval ==
    /\ reads < MaxReads
    /\ reads' = reads + 1
    /\ IF needs_evaluation(evaluation)
       THEN LET L == property_buffered(mel, max_effect_length(parts, start))
                r == perform_evaluation(parts, start, dir, L, reads + 1)
            IN  /\ mel' = [set |-> TRUE, value |-> L]
                /\ evaluation' = assign_evaluation(evaluation, r)
                /\ last' = [op |-> "eval", ran |-> TRUE, sized |-> ~mel.set,
                            raised |-> r.raised, error |-> r.error,
                            value |-> IF r.raised THEN <<>> ELSE evaluation'.val,
                            probe |-> r.probe, icalls |-> r.icalls,
                            afterClear |-> cleared /\ reads = 0]
       ELSE /\ UNCHANGED <<mel, evaluation>>
            /\ last' = [Idle("eval") EXCEPT !.value = evaluation.val]
    /\ UNCHANGED <<parts, start, dir, cleared>>

\* mutant: clear() drops the buffered max_effect_length too
clear_everything ==
    /\ ~(evaluation.none /\ reads = 0)
    /\ evaluation' = None
    /\ mel' = Unset
    /\ reads' = 0
    /\ cleared' = (cleared \/ ~evaluation.none)
    /\ last' = Idle("clear")
    /\ UNCHANGED <<parts, start, dir>>

\* Evaluator.clear (where it changes anything: after a read)
clear ==
    /\ ~(evaluation.none /\ reads = 0)
    /\ evaluation' = None
    /\ reads' = 0
    /\ cleared' = (cleared \/ ~evaluation.none)
    /\ last' = Idle("clear")
    /\ UNCHANGED <<parts, start, dir, mel>>

\* the caller appends a part to the list the Evaluator holds
add_part ==
    /\ Len(parts) < MaxParts
    /\ \E p \in Candidates : parts' = Append(parts, p)
    /\ last' = Idle("mutate")
    /\ UNCHANGED <<start, dir, evaluation, mel, reads, cleared>>

\* the caller moves a part's solid
move_part ==
    /\ \E i \in 1..Len(parts), c \in Centres :
          /\ parts[i].solid
          /\ c # parts[i].c
          /\ parts' = [parts EXCEPT ![i].c = c]
    /\ last' = Idle("mutate")
    /\ UNCHANGED <<start, dir, evaluation, mel, reads, cleared>>

\* the caller enlarges a part's solid
enlarge_part ==
    /\ \E i \in 1..Len(parts) :
          /\ parts[i].solid
          /\ parts[i].h = SmallBox
          /\ parts' = [parts EXCEPT ![i].h = LargeBox]
    /\ last' = Idle("mutate")
    /\ UNCHANGED <<start, dir, evaluation, mel, reads, cleared>>

Next ==
    \/ construct
    \/ read_max_effect_length
    \/ eval
    \/ clear
    \/ add_part
    \/ move_part
    \/ enlarge_part

Spec == Init /\ [][Next]_vars

(* ------------------------------ properties ----------------------------- *)
EvalStep == last'.op = "eval" /\ reads' = reads + 1

Solids == {i \in 1..Len(parts) : parts[i].solid}

\* |c - start| + d/2 for the box of centre c and half extents h
Clearance(i) == Length(sub(parts[i].c, start)) + Length(parts[i].h)

SquaredLength(v) == dot(v, v)

\* C1: (sizer sufficiency) whenever perform_evaluation has built a probe from
\* the sizer's value for the current parts, no candidate's bounding sphere
\* reaches farther from start than the probe's far endpoint.
C1_SizerSufficiency ==
    (last.op = "eval" /\ last.probe.built /\ mel.value = max_effect_length(parts, start))
        => \A i \in Solids :
              Clearance(i) * Clearance(i) <= SquaredLength(sub(last.probe.b, start))

\* C2: (probe segment) whenever max_effect_length is non-zero, the probe built
\* by perform_evaluation runs from start to start + unit(dir) * (max_effect_length + 1)
\* and is max_effect_length + 1 long.
C2_ProbeSegment ==
    (last.op = "eval" /\ last.probe.built)
        => /\ last.probe.a = start
           /\ last.probe.b = add(start, multiply(normalized(dir), mel.value + 1))
           /\ SquaredLength(sub(last.probe.b, last.probe.a)) = (mel.value + 1) * (mel.value + 1)

\* what a freshly constructed Evaluator over the current parts, start and dir
\* gives on its first eval read
FreshEvaluation ==
    perform_evaluation(parts, start, dir, max_effect_length(parts, start), reads)

\* C3: (cache invalidation) the first eval read after a clear() that discarded
\* an evaluation recomputes, and where a freshly constructed Evaluator with the
\* same parts, start and dir returns a sequence, the read returns that sequence.
C3_CacheInvalidation ==
    (last.op = "eval" /\ last.afterClear /\ ~FreshEvaluation.raised)
        => /\ last.ran
           /\ ~last.raised
           /\ last.value = FreshEvaluation.list

\* C4 as stated: in a run of eval reads with no clear() in between,
\* perform_evaluation runs on the first read only (here for a start at the
\* coordinate origin, where the probe is never degenerate).
C4_RunsAtMostOnce == (last.op = "eval" /\ last.ran /\ start = Origin) => reads = 1

\* C4: (idempotence, amended) once an eval read has returned a sequence, and
\* until clear(), every eval read returns that identical sequence (the same
\* Effects in the same order, empty or not) and runs no perform_evaluation,
\* builds no probe and makes no intersection.
C4_Idempotence ==
    [][(EvalStep /\ ~evaluation.none)
          => /\ ~last'.ran
             /\ ~last'.raised
             /\ last'.icalls = 0
             /\ ~last'.probe.built
             /\ last'.value = evaluation.val
             /\ evaluation' = evaluation]_vars

C4_Witness ==
    /\ last.op = "eval"
    /\ reads = 2
    /\ ~last.ran
    /\ ~evaluation.none
    /\ last.value = <<>>
    /\ mel.value > 0

\* C5: (ordering law) in the buffered sequence no Effect follows one of greater
\* origin_displacement, and Effects of equal origin_displacement stand in the
\* order of their parts in parts.
C5_Ordering ==
    ~evaluation.none =>
        \A i, j \in 1..Len(evaluation.val) :
            i < j =>
                LET di == origin_displacement(evaluation.val[i])
                    dj == origin_displacement(evaluation.val[j])
                IN  /\ ~RLt(dj, di)
                    /\ REq(di, dj) => evaluation.val[i].part < evaluation.val[j].part

C5_Witness ==
    /\ last.op = "eval"
    /\ last.ran
    /\ Len(last.value) = 2
    /\ last.value[1].part > last.value[2].part
    /\ RLt(origin_displacement(last.value[1]), origin_displacement(last.value[2]))

Struck(p) == {i \in 1..Len(parts) : p.built /\ intersect(parts[i], p).edges # <<>>}

\* C7: (result membership) the sequence an evaluation returns holds exactly one
\* Effect per candidate whose intersection with the probe has an edge, none for
\* the others, every Effect truthy and its part a member of parts.
C7_Membership ==
    (last.op = "eval" /\ last.ran /\ ~last.raised)
        => /\ {last.value[k].part : k \in 1..Len(last.value)} = Struck(last.probe)
           /\ Len(last.value) = Cardinality(Struck(last.probe))
           /\ \A k \in 1..Len(last.value) :
                 /\ last.value[k].result.edges # <<>>
                 /\ last.value[k].part \in 1..Len(parts)

C7_Witness ==
    /\ last.op = "eval"
    /\ last.ran
    /\ ~last.raised
    /\ Len(parts) = 2
    /\ Solids = {1, 2}
    /\ Struck(last.probe) = {2}
    /\ Len(last.value) = 1

C9_SizerResult ==
    last.sized
        => /\ mel.value >= 0
           /\ Solids = {} => mel.value = 0
           /\ Solids # {} =>
                 /\ \E i \in Solids : mel.value = Clearance(i)
                 /\ \A i \in Solids : Clearance(i) <= mel.value

C9_Witness ==
    /\ last.sized
    /\ Len(parts) = 2
    /\ Solids = {1, 2}
    /\ Clearance(1) > Clearance(2)

\* C10: (all or nothing) an eval read during which an intersection raises hands
\* its caller that error and no sequence, leaves the buffered evaluation unset,
\* and the next eval read runs the whole evaluation again, from the first candidate.
C10_AllOrNothing ==
    [][EvalStep
          => /\ last'.raised
                => /\ last'.value = <<>>
                   /\ evaluation'.none
                   /\ evaluation' = evaluation
                   /\ last'.error.kind = "kernel"
                         => /\ parts[last'.error.part].raises
                            /\ \A j \in 1..(last'.error.part - 1) : ~parts[j].raises
             /\ (last.op = "eval" /\ last.raised)
                => /\ last'.ran
                   /\ (last'.raised /\ last'.error.kind = "kernel")
                         => last'.icalls = last'.error.part
                   /\ (~last'.raised /\ last'.probe.built) => last'.icalls = Len(parts)]_vars

C10_Witness ==
    /\ last.op = "eval"
    /\ reads = 2
    /\ last.ran
    /\ last.raised
    /\ last.error.kind = "kernel"
    /\ last.error.part = 2
    /\ evaluation.none

====
